---- MODULE Spec2Model ----
(***************************************************************************)
(* Model of homeassistant/components/stt/__init__.py: the speech-to-text   *)
(* HTTP view (POST and GET /api/stt/{provider}), the X-Speech-Content      *)
(* header parser and the stt/engine/list websocket command.                *)
(*                                                                         *)
(* Text.  A Python str is a sequence of tokens.  A token is one of the     *)
(* characters ";", "=" and " ", or a word: a maximal run of other          *)
(* characters.  No two words are ever adjacent, so two token sequences are *)
(* equal exactly when the strings they stand for are equal.                *)
(***************************************************************************)
EXTENDS Integers, Sequences, FiniteSets, TLC

VARIABLES
    providers,   \* hass.data[DOMAIN]: the registry, an insertion-ordered dict
    requests,    \* the requests and command messages being served, by slot
    pc,          \* per slot: "start", "awaiting" (suspended at line 96), "done"
    calls,       \* per slot: the async_process_audio_stream calls made, in order
    bodyRead,    \* per slot: TRUE once request.content has been read from
    result,      \* per slot: what the awaited provider call produced
    response,    \* per slot: the HTTP response of the request
    steps,       \* per slot: the steps of the handler that ran, in order
    sent,        \* per slot: the messages given to connection.send_message
    parsed       \* the outcome of a direct call of _metadata_from_header

vars == <<providers, requests, pc, calls, bodyRead, result, response, steps, sent, parsed>>

(***************************************************************************)
(* Bounds of the model.                                                    *)
(***************************************************************************)
MaxEntries == 3     \* entries of an arbitrary (short) header value
MaxPad == 1         \* blanks before and after an entry
MaxRequests == 2    \* requests in flight together

(***************************************************************************)
(* Python str operations used by the parser.                               *)
(***************************************************************************)
Str(w) == <<w>>

Whitespace == {" "}

RECURSIVE find(_, _, _)
find(s, sep, i) ==
    IF i > Len(s) THEN 0
    ELSE IF s[i] = sep THEN i
    ELSE find(s, sep, i + 1)

RECURSIVE split(_, _)
split(s, sep) ==
    LET i == find(s, sep, 1)
    IN  IF i = 0 THEN <<s>>
        ELSE <<SubSeq(s, 1, i - 1)>> \o split(SubSeq(s, i + 1, Len(s)), sep)

RECURSIVE lstrip(_)
lstrip(s) ==
    IF s # <<>> /\ Head(s) \in Whitespace THEN lstrip(Tail(s)) ELSE s

RECURSIVE rstrip(_)
rstrip(s) ==
    IF s # <<>> /\ s[Len(s)] \in Whitespace THEN rstrip(SubSeq(s, 1, Len(s) - 1)) ELSE s

\* str.lstrip in place of str.strip
strip_lead_only(s) == lstrip(s)

strip(s) == rstrip(lstrip(s))

partition(s, sep) ==
    LET i == find(s, sep, 1)
    IN  IF i = 0 THEN <<s, <<>>, <<>>>>
        ELSE <<SubSeq(s, 1, i - 1), <<sep>>, SubSeq(s, i + 1, Len(s))>>

(***************************************************************************)
(* const.py: the enumerations, as maps from the spelling to the member.    *)
(***************************************************************************)
AudioFormats == (Str("wav") :> "WAV") @@ (Str("ogg") :> "OGG")

AudioCodecs == (Str("pcm") :> "PCM")

AudioBitRates ==
    (Str("8") :> 8) @@ (Str("16") :> 16) @@ (Str("24") :> 24) @@ (Str("32") :> 32)

AudioSampleRates ==
    (Str("8000") :> 8000) @@ (Str("16000") :> 16000)
        @@ (Str("44100") :> 44100) @@ (Str("48000") :> 48000)

AudioChannels == (Str("1") :> 1) @@ (Str("2") :> 2)

(***************************************************************************)
(* legacy.py: SpeechMetadata.  Construction converts each value to the     *)
(* member of its enumeration and fails, naming the field, when a value is  *)
(* not a spelling of one.                                                  *)
(***************************************************************************)
NoMetadata == [language |-> <<>>, format |-> "", codec |-> "",
               bit_rate |-> 0, sample_rate |-> 0, channel |-> 0]

Raise(exc, msg, constructed) ==
    [raised |-> exc, msg |-> msg, metadata |-> NoMetadata, constructed |-> constructed]

Return(metadata) ==
    [raised |-> "", msg |-> <<>>, metadata |-> metadata, constructed |-> TRUE]

InvalidFieldValue(field, value) ==
    Raise("ValueError", <<"invalid ", field, ": ">> \o value, TRUE)

SpeechMetadata(language, format, codec, bit_rate, sample_rate, channel) ==
    IF format \notin DOMAIN AudioFormats THEN InvalidFieldValue("format", format)
    ELSE IF codec \notin DOMAIN AudioCodecs THEN InvalidFieldValue("codec", codec)
    ELSE IF bit_rate \notin DOMAIN AudioBitRates
        THEN InvalidFieldValue("bit_rate", bit_rate)
    ELSE IF sample_rate \notin DOMAIN AudioSampleRates
        THEN InvalidFieldValue("sample_rate", sample_rate)
    ELSE IF channel \notin DOMAIN AudioChannels
        THEN InvalidFieldValue("channel", channel)
    ELSE Return([language |-> language,
                 format |-> AudioFormats[format],
                 codec |-> AudioCodecs[codec],
                 bit_rate |-> AudioBitRates[bit_rate],
                 sample_rate |-> AudioSampleRates[sample_rate],
                 channel |-> AudioChannels[channel]])

(***************************************************************************)
(* _metadata_from_header                                                   *)
(***************************************************************************)
HeaderName == "X-Speech-Content"

fields == <<Str("language"), Str("format"), Str("codec"),
            Str("bit_rate"), Str("sample_rate"), Str("channel")>>

FieldSet == {fields[i] : i \in DOMAIN fields}

\* the loop with unrecognized keys skipped instead of refused
RECURSIVE ConvertHeaderData_skip_unknown(_, _, _)
ConvertHeaderData_skip_unknown(data, i, args) ==
    IF i > Len(data) THEN [raised |-> "", msg |-> <<>>, args |-> args]
    ELSE LET kv == partition(strip(data[i]), "=")
             key == kv[1]
             value == kv[3]
         IN  IF key \notin FieldSet
                 THEN ConvertHeaderData_skip_unknown(data, i + 1, args)
                 ELSE ConvertHeaderData_skip_unknown(data, i + 1, (key :> value) @@ args)

\* the loop with args.setdefault(key, value): the first occurrence kept
RECURSIVE ConvertHeaderData_first_wins(_, _, _)
ConvertHeaderData_first_wins(data, i, args) ==
    IF i > Len(data) THEN [raised |-> "", msg |-> <<>>, args |-> args]
    ELSE LET kv == partition(strip(data[i]), "=")
             key == kv[1]
             value == kv[3]
         IN  IF key \notin FieldSet
                 THEN [raised |-> "ValueError", msg |-> <<"Invalid field ">> \o key,
                       args |-> args]
                 ELSE ConvertHeaderData_first_wins(data, i + 1, args @@ (key :> value))

\* lines 142-147: the loop over the entries, from entry i on
RECURSIVE ConvertHeaderData(_, _, _)
ConvertHeaderData(data, i, args) ==
    IF i > Len(data) THEN [raised |-> "", msg |-> <<>>, args |-> args]
    ELSE LET kv == partition(strip(data[i]), "=")
             key == kv[1]
             value == kv[3]
         IN  IF key \notin FieldSet
                 THEN [raised |-> "ValueError", msg |-> <<"Invalid field ">> \o key,
                       args |-> args]
                 ELSE ConvertHeaderData(data, i + 1, (key :> value) @@ args)

\* the absent fields with `fields` walked backwards
MissingFields_reversed(args) ==
    LET n == Len(fields)
    IN  SelectSeq([i \in 1..n |-> fields[n + 1 - i]], LAMBDA f : f \notin DOMAIN args)

\* lines 149-151: the fields absent from args, in the order of `fields`
MissingFields(args) == SelectSeq(fields, LAMBDA f : f \notin DOMAIN args)

MetadataFromHeaderData(data) ==
    LET conv == ConvertHeaderData(data, 1, <<>>)
        args == conv.args
        missing == MissingFields(args)
    IN  IF conv.raised # "" THEN Raise(conv.raised, conv.msg, FALSE)
        ELSE IF missing # <<>>
            THEN Raise("ValueError",
                       <<"Missing ">> \o missing[1] \o <<" in X-Speech-Content header">>,
                       FALSE)
        ELSE LET made == SpeechMetadata(args[Str("language")], args[Str("format")],
                                        args[Str("codec")], args[Str("bit_rate")],
                                        args[Str("sample_rate")], args[Str("channel")])
             IN  IF made.raised = "TypeError"
                     THEN Raise("ValueError",
                                <<"Wrong format of X-Speech-Content: ">> \o made.msg, TRUE)
                     ELSE made

\* request.headers.get(name, "") in place of request.headers[name]
metadata_from_header_default_empty(request) ==
    MetadataFromHeaderData(
        split(IF HeaderName \in DOMAIN request.headers
                  THEN request.headers[HeaderName] ELSE <<>>, ";"))

_metadata_from_header(request) ==
    IF HeaderName \notin DOMAIN request.headers
        THEN Raise("ValueError", <<"Missing X-Speech-Content header">>, FALSE)
    ELSE MetadataFromHeaderData(split(request.headers[HeaderName], ";"))

(***************************************************************************)
(* legacy.py: Provider.  A provider is the record of its six capability    *)
(* descriptors; check_metadata is the membership test of the five          *)
(* non-language fields.                                                    *)
(***************************************************************************)
check_metadata(provider, metadata) ==
    /\ metadata.format \in provider.supported_formats
    /\ metadata.codec \in provider.supported_codecs
    /\ metadata.bit_rate \in provider.supported_bit_rates
    /\ metadata.sample_rate \in provider.supported_sample_rates
    /\ metadata.channel \in provider.supported_channels

(***************************************************************************)
(* The registry is a dict: a sequence of (engine_id, provider) items with  *)
(* distinct keys, in insertion order.                                      *)
(***************************************************************************)
Keys(d) == {d[i].engine_id : i \in DOMAIN d}

GetItem(d, key) == d[CHOOSE i \in DOMAIN d : d[i].engine_id = key].provider

pop(d, key) == SelectSeq(d, LAMBDA item : item.engine_id # key)

(***************************************************************************)
(* aiohttp responses.                                                      *)
(***************************************************************************)
NoJson == [none |-> TRUE]

NoResponse == [status |-> 0, text |-> <<>>, json |-> NoJson, raised |-> ""]

HTTPNotFound == [status |-> 404, text |-> <<>>, json |-> NoJson, raised |-> ""]

HTTPBadRequest(text) == [status |-> 400, text |-> text, json |-> NoJson, raised |-> ""]

HTTPUnsupportedMediaType == [status |-> 415, text |-> <<>>, json |-> NoJson, raised |-> ""]

json(data) == [status |-> 200, text |-> <<>>, json |-> data, raised |-> ""]

\* an exception that leaves the handler: the host answers for it
Propagate(exc) == [status |-> 500, text |-> <<>>, json |-> NoJson, raised |-> exc]

asdict(r) == [text |-> r.text, result |-> r.result]

(***************************************************************************)
(* SpeechToTextView.post, lines 81-98: from the start of the handler to    *)
(* the await of the provider call.  The outcome holds the response raised  *)
(* or the call awaited, the steps that ran and the registry afterwards.    *)
(***************************************************************************)
Ended(resp, ran, registry) ==
    [next |-> "done", response |-> resp, call |-> <<>>, steps |-> ran,
     providers |-> registry]

Awaited(call, ran, registry) ==
    [next |-> "awaiting", response |-> NoResponse, call |-> <<call>>, steps |-> ran,
     providers |-> registry]

\* post without the check of lines 92-93
post_unchecked(self_providers, request, provider) ==
    IF provider \notin Keys(self_providers)
        THEN Ended(HTTPNotFound, <<"resolve">>, self_providers)
    ELSE
    LET got == _metadata_from_header(request)
    IN  IF got.raised # ""
            THEN Ended(HTTPBadRequest(got.msg), <<"resolve", "parse">>, self_providers)
        ELSE Awaited([provider |-> provider, metadata |-> got.metadata,
                      stream |-> request.content],
                     <<"resolve", "parse", "delegate">>, self_providers)

\* post with the header parsed before the provider is looked up
post_parse_first(self_providers, request, provider) ==
    LET got == _metadata_from_header(request)
    IN  IF got.raised # ""
            THEN Ended(HTTPBadRequest(got.msg), <<"parse">>, self_providers)
        ELSE IF provider \notin Keys(self_providers)
            THEN Ended(HTTPNotFound, <<"parse", "resolve">>, self_providers)
        ELSE IF ~check_metadata(GetItem(self_providers, provider), got.metadata)
            THEN Ended(HTTPUnsupportedMediaType, <<"parse", "resolve", "negotiate">>,
                       self_providers)
        ELSE Awaited([provider |-> provider, metadata |-> got.metadata,
                      stream |-> request.content],
                     <<"parse", "resolve", "negotiate", "delegate">>, self_providers)

\* post with self.providers.pop(provider) in place of self.providers[provider]
post_pop(self_providers, request, provider) ==
    IF provider \notin Keys(self_providers)
        THEN Ended(HTTPNotFound, <<"resolve">>, self_providers)
    ELSE
    LET stt_provider == GetItem(self_providers, provider)
        registry == pop(self_providers, provider)
        got == _metadata_from_header(request)
    IN  IF got.raised # ""
            THEN Ended(HTTPBadRequest(got.msg), <<"resolve", "parse">>, registry)
        ELSE IF ~check_metadata(stt_provider, got.metadata)
            THEN Ended(HTTPUnsupportedMediaType, <<"resolve", "parse", "negotiate">>,
                       registry)
        ELSE Awaited([provider |-> provider, metadata |-> got.metadata,
                      stream |-> request.content],
                     <<"resolve", "parse", "negotiate", "delegate">>, registry)

post(self_providers, request, provider) ==
    IF provider \notin Keys(self_providers)
        THEN Ended(HTTPNotFound, <<"resolve">>, self_providers)
    ELSE
    LET stt_provider == GetItem(self_providers, provider)
        got == _metadata_from_header(request)
        metadata == got.metadata
    IN  IF got.raised = "ValueError"
            THEN Ended(HTTPBadRequest(got.msg), <<"resolve", "parse">>, self_providers)
        ELSE IF got.raised # ""
            THEN Ended(Propagate(got.raised), <<"resolve", "parse">>, self_providers)
        ELSE IF ~check_metadata(stt_provider, metadata)
            THEN Ended(HTTPUnsupportedMediaType, <<"resolve", "parse", "negotiate">>,
                       self_providers)
        ELSE Awaited([provider |-> provider, metadata |-> metadata,
                      stream |-> request.content],
                     <<"resolve", "parse", "negotiate", "delegate">>, self_providers)

\* lines 96-101: the handler resumed with what the awaited call produced
post_resume(outcome) ==
    IF outcome.raised # "" THEN Propagate(outcome.raised)
    ELSE json(asdict(outcome.value))

(***************************************************************************)
(* SpeechToTextView.get                                                    *)
(***************************************************************************)
get(self_providers, request, provider) ==
    IF provider \notin Keys(self_providers)
        THEN Ended(HTTPNotFound, <<"resolve">>, self_providers)
    ELSE
    LET stt_provider == GetItem(self_providers, provider)
    IN  Ended(json([languages |-> stt_provider.supported_languages,
                    formats |-> stt_provider.supported_formats,
                    codecs |-> stt_provider.supported_codecs,
                    sample_rates |-> stt_provider.supported_sample_rates,
                    bit_rates |-> stt_provider.supported_bit_rates,
                    channels |-> stt_provider.supported_channels]),
              <<"resolve", "respond">>, self_providers)

(***************************************************************************)
(* util/language.py: matches.  A language tag is a sequence of subtags     *)
(* separated by "_" or "-".  The supported tags with the base language of  *)
(* the requested one, compared without case, are returned; none for an     *)
(* empty or unparseable request.                                           *)
(***************************************************************************)
Separators == {"_", "-"}

lower(w) ==
    CASE w = "DE" -> "de"
      [] w = "EN" -> "en"
      [] w = "US" -> "us"
      [] OTHER -> w

Parseable(tag) ==
    /\ Len(tag) % 2 = 1
    /\ \A i \in DOMAIN tag : (i % 2 = 0) <=> (tag[i] \in Separators)

BaseLanguage(tag) == lower(tag[1])

matches(target, supported) ==
    IF ~Parseable(target) THEN <<>>
    ELSE SelectSeq(supported,
                   LAMBDA tag : Parseable(tag) /\ BaseLanguage(tag) = BaseLanguage(target))

bool(x) == x # <<>>

(***************************************************************************)
(* websocket_list_engines                                                  *)
(***************************************************************************)
result_message(iden, res) ==
    [id |-> iden, type |-> "result", success |-> TRUE, result |-> res]

EngineEntry(language, item) ==
    [engine_id |-> item.engine_id,
     language_supported |->
         bool(matches(language, item.provider.supported_languages))]

\* the listing with the providers that do not match left out
websocket_list_engines_matching_only(hass_data, msg) ==
    IF "language" \notin DOMAIN msg THEN [raised |-> "KeyError", sent |-> <<>>]
    ELSE
    LET kept == SelectSeq(hass_data,
                          LAMBDA item : EngineEntry(msg["language"], item).language_supported)
        listing == [providers |->
                       [i \in DOMAIN kept |-> EngineEntry(msg["language"], kept[i])]]
    IN  [raised |-> "", sent |-> <<result_message(msg["id"], listing)>>]

websocket_list_engines(hass_data, msg) ==
    LET legacy_providers == hass_data
    IN  IF "language" \notin DOMAIN msg
            THEN [raised |-> "KeyError", sent |-> <<>>]
        ELSE
        LET language == msg["language"]
            listing == [providers |->
                           [i \in DOMAIN legacy_providers |->
                               EngineEntry(language, legacy_providers[i])]]
        IN  [raised |-> "", sent |-> <<result_message(msg["id"], listing)>>]

(***************************************************************************)
(* The handlers as steps of the event loop.  A handler runs without        *)
(* interruption up to its await; the provider call of a suspended POST is  *)
(* the provider's own business: it may read the stream it was given, and   *)
(* it ends with a SpeechResult or with an exception.                       *)
(***************************************************************************)
Slots == DOMAIN requests

SpeechResults == {[text |-> "hello", result |-> "success"],
                  [text |-> "", result |-> "error"]}

ProviderOutcomes ==
    {[raised |-> "", value |-> v] : v \in SpeechResults}
        \cup {[raised |-> "ProviderError", value |-> [text |-> "", result |-> "error"]]}

NoOutcome == [raised |-> "", value |-> [text |-> "", result |-> ""]]

Post(r) ==
    /\ pc[r] = "start"
    /\ requests[r].verb = "POST"
    /\ LET out == post(providers, requests[r], requests[r].provider)
       IN  /\ pc' = [pc EXCEPT ![r] = out.next]
           /\ calls' = [calls EXCEPT ![r] = @ \o out.call]
           /\ response' = [response EXCEPT ![r] = out.response]
           /\ steps' = [steps EXCEPT ![r] = @ \o out.steps]
           /\ providers' = out.providers
    /\ UNCHANGED <<requests, bodyRead, result, sent, parsed>>

ProviderRead(r) ==
    /\ pc[r] = "awaiting"
    /\ LET stream == calls[r][Len(calls[r])].stream
       IN  /\ ~bodyRead[stream]
           /\ bodyRead' = [bodyRead EXCEPT ![stream] = TRUE]
    /\ UNCHANGED <<providers, requests, pc, calls, result, response, steps, sent, parsed>>

ProviderReturn(r) ==
    /\ pc[r] = "awaiting"
    /\ \E outcome \in ProviderOutcomes :
           /\ result' = [result EXCEPT ![r] = outcome]
           /\ response' = [response EXCEPT ![r] = post_resume(outcome)]
    /\ pc' = [pc EXCEPT ![r] = "done"]
    /\ steps' = [steps EXCEPT ![r] = Append(@, "respond")]
    /\ UNCHANGED <<providers, requests, calls, bodyRead, sent, parsed>>

Get(r) ==
    /\ pc[r] = "start"
    /\ requests[r].verb = "GET"
    /\ LET out == get(providers, requests[r], requests[r].provider)
       IN  /\ pc' = [pc EXCEPT ![r] = out.next]
           /\ response' = [response EXCEPT ![r] = out.response]
           /\ steps' = [steps EXCEPT ![r] = @ \o out.steps]
    /\ UNCHANGED <<providers, requests, calls, bodyRead, result, sent, parsed>>

ListEngines(r) ==
    /\ pc[r] = "start"
    /\ requests[r].verb = "WS"
    /\ LET out == websocket_list_engines(providers, requests[r].msg)
       IN  /\ sent' = [sent EXCEPT ![r] = @ \o out.sent]
           /\ response' = [response EXCEPT ![r] =
                              IF out.raised = "" THEN NoResponse ELSE Propagate(out.raised)]
    /\ pc' = [pc EXCEPT ![r] = "done"]
    /\ UNCHANGED <<providers, requests, calls, bodyRead, result, steps, parsed>>

\* _metadata_from_header applied to the request of slot 1 on its own
NotParsed == [called |-> FALSE, out |-> Raise("", <<>>, FALSE)]

CallMetadataFromHeader ==
    /\ ~parsed.called
    /\ parsed' = [called |-> TRUE, out |-> _metadata_from_header(requests[1])]
    /\ UNCHANGED <<providers, requests, pc, calls, bodyRead, result, response, steps, sent>>

(***************************************************************************)
(* Inputs.  A client composes a header value from entries: blanks, a key,  *)
(* optionally "=" and a value, blanks; the entries are joined with ";".    *)
(* The request keeps the entries beside the header value they produce.     *)
(***************************************************************************)
Entry(key, sep, value) ==
    [lpad |-> 0, key |-> key, sep |-> sep, value |-> value, rpad |-> 0]

Pad(e, l, r) == [e EXCEPT !.lpad = l, !.rpad = r]

Blanks(n) == [i \in 1..n |-> " "]

Render(e) ==
    Blanks(e.lpad) \o e.key \o (IF e.sep THEN <<"=">> \o e.value ELSE <<>>)
        \o Blanks(e.rpad)

RECURSIVE Join(_)
Join(es) ==
    IF Len(es) = 1 THEN Render(es[1])
    ELSE Render(es[1]) \o <<";">> \o Join(Tail(es))

CanonValue ==
    (Str("language") :> Str("en_US")) @@ (Str("format") :> Str("wav"))
        @@ (Str("codec") :> Str("pcm")) @@ (Str("bit_rate") :> Str("16"))
        @@ (Str("sample_rate") :> Str("16000")) @@ (Str("channel") :> Str("1"))

AltValue ==
    (Str("language") :> Str("de")) @@ (Str("format") :> Str("ogg"))
        @@ (Str("codec") :> Str("mp3")) @@ (Str("bit_rate") :> Str("8"))
        @@ (Str("sample_rate") :> Str("44100")) @@ (Str("channel") :> Str("2"))

Canon(f) == Entry(f, TRUE, CanonValue[f])

Alt(f) == Entry(f, TRUE, AltValue[f])

OddEntries ==
    { Entry(<<>>, FALSE, <<>>),                          \* ""
      Entry(<<>>, TRUE, Str("wav")),                     \* "=wav"
      Entry(Str("foo"), TRUE, Str("wav")),               \* "foo=wav"
      Entry(Str("Format"), TRUE, Str("wav")),            \* "Format=wav"
      Entry(<<"format", " ">>, TRUE, Str("wav")),        \* "format =wav"
      Entry(Str("codec"), TRUE, <<" ", "pcm">>),         \* "codec= pcm"
      Entry(Str("language"), FALSE, <<>>),               \* "language"
      Entry(Str("language"), TRUE, <<"en", "=", "US">>), \* "language=en=US"
      Entry(Str("bit_rate"), TRUE, <<>>),                \* "bit_rate="
      Alt(Str("format")),                                \* "format=ogg"
      Alt(Str("language")) }                             \* "language=de"

PaddedEntries ==
    { Pad(e, n, n) : e \in {Canon(Str("language")), Entry(Str("foo"), TRUE, Str("wav"))},
                     n \in 1..MaxPad }

EntryPool == {Canon(f) : f \in FieldSet} \cup OddEntries \cup PaddedEntries

\* every header value of at most MaxEntries entries of the pool
ShortInputs == UNION {[1..n -> EntryPool] : n \in 1..MaxEntries}

Orders == {p \in [1..Len(fields) -> 1..Len(fields)] : \A i, j \in DOMAIN p : p[i] = p[j] => i = j}

DocOrder == <<2, 3, 5, 4, 6, 1>>

BaseOrders == {[i \in 1..Len(fields) |-> i], DocOrder}

Pads == (0..MaxPad) \X (0..MaxPad)

\* the six keys in every order, every entry padded alike
PermutedInputs ==
    { [i \in 1..Len(fields) |-> Pad(Canon(fields[p[i]]), lr[1], lr[2])] :
          p \in Orders, lr \in Pads }

\* the six keys, each with one of two values, written as in the docstring
VariedInputs ==
    { [i \in 1..Len(fields) |->
          Pad(IF fields[p[i]] \in alt THEN Alt(fields[p[i]]) ELSE Canon(fields[p[i]]),
              IF i = 1 THEN 0 ELSE 1, 0)] :
          p \in BaseOrders, alt \in SUBSET FieldSet }

InsertAt(es, k, e) == SubSeq(es, 1, k) \o <<e>> \o SubSeq(es, k + 1, Len(es))

\* the six keys and one more entry of the pool, anywhere
ExtendedInputs ==
    { InsertAt([i \in 1..Len(fields) |-> Canon(fields[p[i]])], k, e) :
          p \in BaseOrders, k \in 0..Len(fields), e \in EntryPool }

HeaderInputs == ShortInputs \cup PermutedInputs \cup VariedInputs \cup ExtendedInputs

Headers(entries) ==
    IF entries = <<>> THEN <<>> ELSE (HeaderName :> Join(entries))

HttpRequest(verb, provider, entries) ==
    [verb |-> verb, provider |-> provider, headers |-> Headers(entries),
     entries |-> entries, content |-> 0, msg |-> [id |-> 0]]

Command(msg) ==
    [verb |-> "WS", provider |-> "", headers |-> <<>>, entries |-> <<>>,
     content |-> 0, msg |-> msg]

\* the request in slot r has stream r as its content and r as its message id
InSlots(reqs) == [r \in DOMAIN reqs |-> [reqs[r] EXCEPT !.content = r, !.msg.id = r]]

Tag(a, sep, b) == <<a, sep, b>>

Mock ==
    [supported_languages |-> <<Tag("de", "_", "DE"), Tag("en", "-", "US")>>,
     supported_formats |-> {"WAV"}, supported_codecs |-> {"PCM"},
     supported_bit_rates |-> {16}, supported_sample_rates |-> {16000},
     supported_channels |-> {1}]

Cloud ==
    [supported_languages |-> <<Str("fr")>>,
     supported_formats |-> {"WAV", "OGG"}, supported_codecs |-> {"PCM"},
     supported_bit_rates |-> {8, 16}, supported_sample_rates |-> {16000, 44100},
     supported_channels |-> {1, 2}]

Item(engine_id, provider) == [engine_id |-> engine_id, provider |-> provider]

Registries ==
    { <<>>, <<Item("mock", Mock)>>, <<Item("cloud", Cloud)>>,
      <<Item("mock", Mock), Item("cloud", Cloud)>>,
      <<Item("cloud", Cloud), Item("mock", Mock)>> }

Start(reqs, registry) ==
    /\ providers = registry
    /\ requests = InSlots(reqs)
    /\ pc = [r \in DOMAIN reqs |-> "start"]
    /\ calls = [r \in DOMAIN reqs |-> <<>>]
    /\ bodyRead = [r \in DOMAIN reqs |-> FALSE]
    /\ result = [r \in DOMAIN reqs |-> NoOutcome]
    /\ response = [r \in DOMAIN reqs |-> NoResponse]
    /\ steps = [r \in DOMAIN reqs |-> <<>>]
    /\ sent = [r \in DOMAIN reqs |-> <<>>]
    /\ parsed = NotParsed

(***************************************************************************)
(* SpecParse: one POST to a registered provider, with any header of        *)
(* HeaderInputs or none; the parser is also applied to it directly.        *)
(***************************************************************************)
InitParse ==
    \E entries \in HeaderInputs \cup {<<>>} :
        Start(<<HttpRequest("POST", "mock", entries)>>, <<Item("mock", Mock)>>)

NextParse == CallMetadataFromHeader \/ \E r \in Slots : Post(r)

SpecParse == InitParse /\ [][NextParse]_vars

(***************************************************************************)
(* Spec: MaxRequests requests in flight together, under any registry.      *)
(***************************************************************************)
Malformed == <<Entry(Str("foo"), TRUE, Str("wav"))>>

DocHeader(alt) ==
    [i \in 1..Len(fields) |->
        Pad(IF fields[DocOrder[i]] \in alt THEN Alt(fields[DocOrder[i]])
            ELSE Canon(fields[DocOrder[i]]),
            IF i = 1 THEN 0 ELSE 1, 0)]

Languages == {<<>>, Str("de"), Tag("EN", "_", "us"), Str("-")}

ServedRequests ==
    { HttpRequest("POST", p, h) :
          p \in {"mock", "nobody"},
          h \in {<<>>, Malformed, DocHeader({}), DocHeader({Str("format")})} }
    \cup { HttpRequest("GET", p, Malformed) : p \in {"mock", "nobody"} }
    \cup { Command([id |-> 0, type |-> "stt/engine/list"]) }
    \cup { Command([id |-> 0, type |-> "stt/engine/list", language |-> l]) :
               l \in Languages }

Init ==
    \E reqs \in [1..MaxRequests -> ServedRequests], registry \in Registries :
        Start(reqs, registry)

Next ==
    \/ \E r \in Slots : Post(r)
    \/ \E r \in Slots : ProviderRead(r)
    \/ \E r \in Slots : ProviderReturn(r)
    \/ \E r \in Slots : Get(r)
    \/ \E r \in Slots : ListEngines(r)

Spec == Init /\ [][Next]_vars

(***************************************************************************)
(* The claims.                                                             *)
(***************************************************************************)
Done(r) == pc[r] = "done"

Posts == {r \in Slots : requests[r].verb = "POST"}

Gets == {r \in Slots : requests[r].verb = "GET"}

Commands == {r \in Slots : requests[r].verb = "WS"}

HasHeader(r) == HeaderName \in DOMAIN requests[r].headers

\* the error kinds of the parser, by their messages
MissingHeader == <<"Missing X-Speech-Content header">>

MissingField(f) == <<"Missing ">> \o f \o <<" in X-Speech-Content header">>

UnknownField(key) == <<"Invalid field ">> \o key

\* what the client wrote in the header of slot 1
Written == requests[1].entries

WrittenKeys == {Written[i].key : i \in DOMAIN Written}

AllRecognized == \A i \in DOMAIN Written : Written[i].key \in FieldSet

Absent == FieldSet \ WrittenKeys

FirstAbsent == fields[CHOOSE i \in DOMAIN fields :
                         /\ fields[i] \in Absent
                         /\ \A j \in 1..(i - 1) : fields[j] \notin Absent]

FirstUnknown == Written[CHOOSE i \in DOMAIN Written :
                           /\ Written[i].key \notin FieldSet
                           /\ \A j \in 1..(i - 1) : Written[j].key \in FieldSet].key

LastWritten(f) == Written[CHOOSE i \in DOMAIN Written :
                             /\ Written[i].key = f
                             /\ \A j \in (i + 1)..Len(Written) : Written[j].key # f].value

Member(f, value) ==
    CASE f = Str("language") -> value
      [] f = Str("format") -> AudioFormats[value]
      [] f = Str("codec") -> AudioCodecs[value]
      [] f = Str("bit_rate") -> AudioBitRates[value]
      [] f = Str("sample_rate") -> AudioSampleRates[value]
      [] f = Str("channel") -> AudioChannels[value]

Legal(f, value) ==
    CASE f = Str("language") -> TRUE
      [] f = Str("format") -> value \in DOMAIN AudioFormats
      [] f = Str("codec") -> value \in DOMAIN AudioCodecs
      [] f = Str("bit_rate") -> value \in DOMAIN AudioBitRates
      [] f = Str("sample_rate") -> value \in DOMAIN AudioSampleRates
      [] f = Str("channel") -> value \in DOMAIN AudioChannels

FieldOf(metadata, f) ==
    CASE f = Str("language") -> metadata.language
      [] f = Str("format") -> metadata.format
      [] f = Str("codec") -> metadata.codec
      [] f = Str("bit_rate") -> metadata.bit_rate
      [] f = Str("sample_rate") -> metadata.sample_rate
      [] f = Str("channel") -> metadata.channel

\* the header is `key=value` entries, the six keys once each, every value legal
WellFormed ==
    /\ Len(Written) = Len(fields)
    /\ WrittenKeys = FieldSet
    /\ \A i \in DOMAIN Written :
           Written[i].sep /\ Legal(Written[i].key, Written[i].value)

\* C1: the provider's async_process_audio_stream is called at most once for a
\* POST, and only after the provider was found, the header parsed and
\* check_metadata returned true; when check_metadata returns false the request
\* ends with 415, the provider is never called and the body is never read.
C1_DelegateOnlyAfterNegotiation ==
    \A r \in Posts :
        LET req == requests[r]
            found == req.provider \in Keys(providers)
            got == _metadata_from_header(req)
            accepted == check_metadata(GetItem(providers, req.provider), got.metadata)
        IN  /\ Len(calls[r]) <= 1
            /\ calls[r] # <<>> =>
                   /\ found /\ got.raised = "" /\ accepted
                   /\ SubSeq(steps[r], 1, 4) = <<"resolve", "parse", "negotiate", "delegate">>
            /\ calls[r] = <<>> => ~bodyRead[r]
            /\ (pc[r] # "start" /\ found /\ got.raised = "" /\ ~accepted) =>
                   /\ Done(r)
                   /\ response[r] = HTTPUnsupportedMediaType
                   /\ calls[r] = <<>>
                   /\ ~bodyRead[r]

C1_Witness ==
    \E r, q \in Posts :
        /\ requests[r].provider \in Keys(providers)
        /\ _metadata_from_header(requests[r]).raised = ""
        /\ response[r].status = 415 /\ calls[r] = <<>> /\ ~bodyRead[r]
        /\ Len(calls[q]) = 1 /\ bodyRead[q] /\ response[q].status = 200

\* C2: a POST or GET whose provider is not a key of the registry fails with
\* 404 whatever its X-Speech-Content header is; resolving comes first, so the
\* answer is never 400 or 415, and GET never parses the header.
C2_UnknownProviderNotFound ==
    /\ \A r \in Posts \cup Gets :
           (pc[r] # "start" /\ requests[r].provider \notin Keys(providers)) =>
               /\ Done(r)
               /\ response[r] = HTTPNotFound
               /\ steps[r] = <<"resolve">>
    /\ \A r \in Gets : \A i \in DOMAIN steps[r] : steps[r][i] # "parse"

C2_Witness ==
    \E r \in Posts, q \in Gets :
        /\ requests[r].provider \notin Keys(providers)
        /\ requests[r].entries = Malformed
        /\ response[r].status = 404
        /\ requests[q].provider \notin Keys(providers)
        /\ response[q].status = 404

\* C3: for a header of `key=value` entries with the six recognized keys once
\* each, in any order, every value legal, with any blanks around an entry,
\* _metadata_from_header succeeds and every field of the SpeechMetadata is
\* the value written for its key.
C3_WellFormedHeaderParses ==
    (parsed.called /\ WellFormed) =>
        /\ parsed.out.raised = ""
        /\ \A i \in DOMAIN Written :
               FieldOf(parsed.out.metadata, Written[i].key)
                   = Member(Written[i].key, Written[i].value)

C3_Witness ==
    /\ parsed.called /\ WellFormed
    /\ Written[1].key = Str("channel") /\ Written[Len(fields)].key = Str("language")
    /\ Written[Len(fields)].lpad > 0 /\ Written[Len(fields)].rpad > 0
    /\ parsed.out.raised = ""
    /\ parsed.out.metadata.language = Str("en_US")
    /\ parsed.out.metadata.bit_rate = 16

\* C4 as first stated: for any header value that is missing one of the six
\* recognized keys, _metadata_from_header fails with the MissingField error
\* naming a missing key, and the POST endpoint answers 400 with that message.
C4_AnyHeaderMissingAKey ==
    (HasHeader(1) /\ Absent # {}) =>
        /\ parsed.called =>
               /\ parsed.out.raised = "ValueError"
               /\ \E f \in Absent : parsed.out.msg = MissingField(f)
        /\ Done(1) =>
               \E f \in Absent : response[1] = HTTPBadRequest(MissingField(f))

\* C4: for any header value whose entries all have recognized keys and that is
\* missing one or more of the six, _metadata_from_header fails with the
\* MissingField error naming the first missing key in the order of `fields`,
\* no SpeechMetadata is constructed, and a POST to a registered provider
\* answers 400 with that message.
C4_MissingFieldNamed ==
    (HasHeader(1) /\ AllRecognized /\ Absent # {}) =>
        /\ parsed.called =>
               /\ parsed.out.raised = "ValueError"
               /\ parsed.out.msg = MissingField(FirstAbsent)
               /\ ~parsed.out.constructed
        /\ pc[1] # "start" =>
               /\ Done(1)
               /\ response[1] = HTTPBadRequest(MissingField(FirstAbsent))
               /\ calls[1] = <<>>

C4_Witness ==
    /\ HasHeader(1) /\ AllRecognized
    /\ Cardinality(Absent) >= 2
    /\ Str("language") \notin Absent
    /\ parsed.called /\ parsed.out.msg = MissingField(FirstAbsent)
    /\ response[1].status = 400 /\ response[1].text = MissingField(FirstAbsent)

\* C5: for any header value with an entry whose key is not one of the six
\* recognized keys, _metadata_from_header fails with the UnknownField error
\* naming that key (the first such key of the header), whether or not the six
\* recognized keys are all present, and no SpeechMetadata is constructed.
C5_UnknownFieldNamed ==
    (parsed.called /\ HasHeader(1) /\ ~AllRecognized) =>
        /\ parsed.out.raised = "ValueError"
        /\ parsed.out.msg = UnknownField(FirstUnknown)
        /\ ~parsed.out.constructed

C5_Witness ==
    /\ parsed.called /\ HasHeader(1) /\ ~AllRecognized
    /\ Absent = {}
    /\ FirstUnknown = Str("foo")
    /\ parsed.out.msg = <<"Invalid field ", "foo">>

\* C6: with the X-Speech-Content header absent, _metadata_from_header fails
\* with the MissingHeader error, which no header that is present produces; the
\* empty header value fails too, with another error; neither gives a record.
C6_MissingHeaderDistinct ==
    parsed.called =>
        /\ ~HasHeader(1) =>
               /\ parsed.out.raised = "ValueError"
               /\ parsed.out.msg = MissingHeader
               /\ ~parsed.out.constructed
        /\ HasHeader(1) => parsed.out.msg # MissingHeader
        /\ (HasHeader(1) /\ requests[1].headers[HeaderName] = <<>>) =>
               /\ parsed.out.raised = "ValueError"
               /\ parsed.out.msg # MissingHeader
               /\ ~parsed.out.constructed

C6_Witness ==
    /\ parsed.called /\ ~HasHeader(1)
    /\ parsed.out.raised = "ValueError" /\ parsed.out.msg = MissingHeader
    /\ response[1] = HTTPBadRequest(MissingHeader)

\* C7: an stt/engine/list message without a `language` key is answered with
\* one result reply listing every registered provider with
\* language_supported = false; the handler does not fail.
C7_NoLanguageListsAll ==
    \A r \in Commands :
        (Done(r) /\ "language" \notin DOMAIN requests[r].msg) =>
            /\ response[r].raised = ""
            /\ Len(sent[r]) = 1
            /\ sent[r][1].type = "result"
            /\ sent[r][1].result.providers =
                   [i \in DOMAIN providers |->
                       [engine_id |-> providers[i].engine_id,
                        language_supported |-> FALSE]]

\* C8: an stt/engine/list message with a `language` gets exactly one reply,
\* carrying the id of the message, whose providers list has one
\* {engine_id, language_supported} entry per registered provider, in the
\* order of the registry, language_supported being whether the language
\* matches the provider's supported_languages; no provider is left out.
C8_ListingCoversRegistry ==
    \A r \in Commands :
        /\ ~Done(r) => sent[r] = <<>>
        /\ (Done(r) /\ "language" \in DOMAIN requests[r].msg) =>
               /\ response[r].raised = ""
               /\ Len(sent[r]) = 1
               /\ sent[r][1].id = requests[r].msg.id
               /\ sent[r][1].type = "result"
               /\ DOMAIN sent[r][1].result = {"providers"}
               /\ Len(sent[r][1].result.providers) = Len(providers)
               /\ \A i \in DOMAIN providers :
                      sent[r][1].result.providers[i] =
                          [engine_id |-> providers[i].engine_id,
                           language_supported |->
                               bool(matches(requests[r].msg.language,
                                            providers[i].provider.supported_languages))]

C8_Witness ==
    \E r \in Commands :
        /\ Done(r)
        /\ requests[r].msg.id = 2
        /\ "language" \in DOMAIN requests[r].msg
        /\ requests[r].msg.language = Str("de")
        /\ sent[r] = <<[id |-> 2, type |-> "result", success |-> TRUE,
                        result |-> [providers |->
                            <<[engine_id |-> "cloud", language_supported |-> FALSE],
                              [engine_id |-> "mock", language_supported |-> TRUE]>>]]>>

\* C9: a recognized key written more than once is not refused: the field
\* takes the value of the last occurrence of its key, and the outcome is the
\* one of the header with the earlier occurrences taken away.
C9_LastOccurrenceWins ==
    (parsed.called /\ HasHeader(1) /\ AllRecognized /\ Absent = {}) =>
        parsed.out = SpeechMetadata(LastWritten(Str("language")), LastWritten(Str("format")),
                                    LastWritten(Str("codec")), LastWritten(Str("bit_rate")),
                                    LastWritten(Str("sample_rate")),
                                    LastWritten(Str("channel")))

C9_Witness ==
    /\ parsed.called /\ parsed.out.raised = ""
    /\ \E i, j \in DOMAIN Written :
           /\ i < j
           /\ Written[i].key = Str("format") /\ Written[j].key = Str("format")
           /\ Written[i].value = Str("ogg") /\ Written[j].value = Str("wav")
           /\ parsed.out.metadata.format = "WAV"

\* two requests that carry the same verb, provider, header and message
SameInput(r, q) ==
    /\ requests[r].verb = requests[q].verb
    /\ requests[r].provider = requests[q].provider
    /\ requests[r].headers = requests[q].headers
    /\ DOMAIN requests[r].msg = DOMAIN requests[q].msg
    /\ \A k \in DOMAIN requests[r].msg \ {"id"} : requests[r].msg[k] = requests[q].msg[k]

Independent ==
    /\ \A r \in Slots : \A i \in DOMAIN calls[r] :
           /\ calls[r][i].stream = requests[r].content
           /\ calls[r][i].provider = requests[r].provider
    /\ \A r, q \in Slots :
           (SameInput(r, q) /\ Done(r) /\ Done(q)) =>
               /\ Len(calls[r]) = Len(calls[q])
               /\ calls[r] # <<>> => calls[r][1].metadata = calls[q][1].metadata
               /\ result[r] = result[q] => response[r] = response[q]
               /\ Len(sent[r]) = Len(sent[q])
               /\ \A i \in DOMAIN sent[r] : sent[r][i].result = sent[q][i].result

\* C10: however the requests in flight interleave, no step of request
\* handling writes the registry, and requests with the same provider, header
\* and provider result end alike, whatever else is in flight.
C10_RegistryReadOnlyRequestsIndependent ==
    [][providers' = providers /\ Independent']_vars

C10_Witness ==
    \E r, q \in Posts :
        /\ r # q /\ SameInput(r, q)
        /\ pc[r] = "awaiting"
        /\ bodyRead[r]
        /\ Done(q) /\ response[q].status = 200 /\ ~bodyRead[q]

====
